---- MODULE Spec2Model ----
(***************************************************************************)
(* A model of the Berry lockfile parser (crates/berry-core).               *)
(*                                                                         *)
(* Text is a TLA+ string; a &str slice is the string it denotes.  A nom    *)
(* IResult is a record [status, rest, val]: status "Ok" carries the        *)
(* remaining input and the parsed value, "Err" is nom::Err::Error, and     *)
(* "Panic" is an unwinding panic (assert_eq!, panic!).                     *)
(***************************************************************************)
EXTENDS Integers, Sequences, FiniteSets, TLC

VARIABLES
  file_contents,  \* the &str handed to parse_lockfile
  pc,             \* position inside parse_lockfile
  rest,           \* the local `rest`: the input not yet consumed
  metadata,       \* the local `metadata` (<<>> until parse_metadata returned)
  packages,       \* the Vec accumulated by many0(parse_package_only)
  outcome,        \* "Running", or how the call ended: "Ok", "Err", "Panic"
  keys,           \* the keys a header line handed to parse_descriptor_line is written from
  arg,            \* the &str handed to a sub-parser called on its own
  result          \* the IResult of that call (<<>> before it returns)

vars == <<file_contents, pc, rest, metadata, packages, outcome, keys, arg, result>>

----------------------------------------------------------------------------
(* Characters and string helpers (Rust std)                                *)

Lower == {"a","b","c","d","e","f","g","h","i","j","k","l","m",
          "n","o","p","q","r","s","t","u","v","w","x","y","z"}
Upper == {"A","B","C","D","E","F","G","H","I","J","K","L","M",
          "N","O","P","Q","R","S","T","U","V","W","X","Y","Z"}
Digit == {"0","1","2","3","4","5","6","7","8","9"}

\* char::is_alphabetic / char::is_alphanumeric, on the ASCII range
Alphabetic == Lower \cup Upper
Alphanumeric == Alphabetic \cup Digit

\* char::is_whitespace, on the ASCII range
Whitespace == {" ", "\t", "\n", "\r", "\f"}

\* every character the model's texts are written with
Other == {"@", "/", "-", "_", ":", ",", "\"", "#", "*", "^", ".", "{", "}",
          "%", "~", "|", "=", "&", "<", ">", "!", "+"}
AnyChar == Alphanumeric \cup Whitespace \cup Other

CharAt(s, i) == SubSeq(s, i, i)
From(s, i) == SubSeq(s, i, Len(s))
StartsWith(s, t) == Len(s) >= Len(t) /\ SubSeq(s, 1, Len(t)) = t

\* Option<T>
None == <<>>
Some(v) == <<v>>

\* the first position in lo..hi whose character is not in set, hi + 1 if
\* there is none; the search splits the interval, left half first
RECURSIVE FirstOutside(_, _, _, _)
FirstOutside(s, lo, hi, set) ==
  IF lo > hi THEN hi + 1
  ELSE IF lo = hi THEN (IF CharAt(s, lo) \in set THEN hi + 1 ELSE lo)
  ELSE CHOOSE p \in { IF l <= (lo + hi) \div 2 THEN l
                      ELSE FirstOutside(s, (lo + hi) \div 2 + 1, hi, set)
                      : l \in {FirstOutside(s, lo, (lo + hi) \div 2, set)} } : TRUE

\* the last position in lo..hi whose character is not in set, lo - 1 if
\* there is none
RECURSIVE LastOutside(_, _, _, _)
LastOutside(s, lo, hi, set) ==
  IF lo > hi THEN lo - 1
  ELSE IF lo = hi THEN (IF CharAt(s, lo) \in set THEN lo - 1 ELSE lo)
  ELSE CHOOSE p \in { IF l > (lo + hi) \div 2 THEN l
                      ELSE LastOutside(s, lo, (lo + hi) \div 2, set)
                      : l \in {LastOutside(s, (lo + hi) \div 2 + 1, hi, set)} } : TRUE

\* the first position in lo..hi at which t occurs in s, hi + 1 if there is none
RECURSIVE FirstMatch(_, _, _, _)
FirstMatch(s, t, lo, hi) ==
  IF lo > hi THEN hi + 1
  ELSE IF lo = hi THEN (IF SubSeq(s, lo, lo + Len(t) - 1) = t THEN lo ELSE hi + 1)
  ELSE CHOOSE p \in { IF l <= (lo + hi) \div 2 THEN l
                      ELSE FirstMatch(s, t, (lo + hi) \div 2 + 1, hi)
                      : l \in {FirstMatch(s, t, lo, (lo + hi) \div 2)} } : TRUE

\* the number of leading characters of s, from position i on, that lie in set
SpanFrom(s, i, set) == FirstOutside(s, i, Len(s), set) - 1

Span(s, set) == SpanFrom(s, 1, set)

\* the number of trailing characters of s that lie in set
SpanBack(s, i, set) == Len(s) - LastOutside(s, 1, i, set)

\* str::find: the 0-based index of the first occurrence of t at or after
\* 1-based position i, as an Option
FindFrom(s, t, i) ==
  CHOOSE f \in { IF p > Len(s) - Len(t) + 1 THEN None ELSE Some(p - 1)
                 : p \in {FirstMatch(s, t, i, Len(s) - Len(t) + 1)} } : TRUE

Find(s, t) == FindFrom(s, t, 1)

\* str::trim_matches(set): strip every leading and trailing character in set
TrimMatches(s, set) ==
  LET a == Span(s, set)
  IN  IF a = Len(s) THEN "" ELSE SubSeq(s, a + 1, Len(s) - SpanBack(s, Len(s), set))

\* str::trim
Trim(s) == TrimMatches(s, Whitespace)

----------------------------------------------------------------------------
(* nom results and the complete-input combinators the parser uses          *)

Ok(r, v) == [status |-> "Ok", rest |-> r, val |-> v]
Err(input) == [status |-> "Err", rest |-> input, val |-> <<>>]
Panic == [status |-> "Panic", rest |-> "", val |-> <<>>]

IsOk(r) == r.status = "Ok"

\* bytes::complete::tag
tag(t, input) ==
  IF StartsWith(input, t) THEN Ok(From(input, Len(t) + 1), t) ELSE Err(input)

\* character::complete::char
char(c, input) == tag(c, input)

\* character::complete::newline
newline(input) == char("\n", input)

\* character::complete::space0 / space1: spaces and tabs
space0(input) ==
  LET n == Span(input, {" ", "\t"})
  IN  Ok(From(input, n + 1), SubSeq(input, 1, n))

space1(input) ==
  LET n == Span(input, {" ", "\t"})
  IN  IF n = 0 THEN Err(input) ELSE Ok(From(input, n + 1), SubSeq(input, 1, n))

\* bytes::complete::take_while / take_while1 over a character set
take_while(set, input) ==
  LET n == Span(input, set)
  IN  Ok(From(input, n + 1), SubSeq(input, 1, n))

take_while1(set, input) ==
  LET n == Span(input, set)
  IN  IF n = 0 THEN Err(input) ELSE Ok(From(input, n + 1), SubSeq(input, 1, n))

\* bytes::complete::is_not: one or more characters outside the set
is_not(set, input) == take_while1(AnyChar \ set, input)

\* bytes::complete::take_until: up to (not including) the first occurrence
take_until(t, input) ==
  LET f == Find(input, t)
  IN  IF f = None THEN Err(input)
      ELSE Ok(From(input, f[1] + 1), SubSeq(input, 1, f[1]))

\* combinator::opt
opt(r, input) == IF IsOk(r) THEN Ok(r.rest, Some(r.val)) ELSE Ok(input, None)

\* `let (rest, x) = p(..)?; ...`: go on with an Ok result, return anything else
Bind(r, K(_)) == IF IsOk(r) THEN K(r) ELSE r

\* `if let Ok(..) = p(..) { return .. }` and alt: the next attempt after an Err
OrElse(r, next) == IF r.status = "Err" THEN next ELSE r

----------------------------------------------------------------------------
(* Data model: ident.rs, package.rs, metadata.rs, lockfile.rs              *)

\* Ident::new(scope: Option<String>, name: String)
Ident(scope, name) == [scope |-> scope, name |-> name]

\* Range::from_raw: the raw text and the index of its first ':'
from_raw(raw) == [raw |-> raw, protocol_sep_index |-> Find(raw, ":")]

\* Range::raw
raw(range) == range.raw

\* Range::protocol_str: the text before the first ':', if any
protocol_str(range) ==
  IF range.protocol_sep_index = None THEN None
  ELSE Some(SubSeq(range.raw, 1, range.protocol_sep_index[1]))

\* a faulty variant of the accessor below: the ':' is kept in the selector
selector_from_colon(range) ==
  IF range.protocol_sep_index = None THEN range.raw
  ELSE From(range.raw, range.protocol_sep_index[1] + 1)

\* Range::selector: the text after the first ':', or the whole raw
selector(range) ==
  IF range.protocol_sep_index = None THEN range.raw
  ELSE From(range.raw, range.protocol_sep_index[1] + 2)

\* the arms of Range::protocol, in order, on the protocol prefix p
classify(p) ==
  CASE p = "npm" -> "Npm"
    [] p = "workspace" -> "Workspace"
    [] p = "patch" -> "Patch"
    [] p = "file" -> "File"
    [] p = "portal" -> "Portal"
    [] p = "exec" -> "Exec"
    [] p = "link" -> "Link"
    [] OTHER -> IF StartsWith(p, "git") THEN "Git" ELSE "Unknown"

\* a faulty variant of the classifier below: only the prefix "git" is Git
protocol_git_only(range) ==
  IF protocol_str(range) = None THEN "Unknown"
  ELSE IF protocol_str(range)[1] = "git" THEN "Git"
  ELSE IF classify(protocol_str(range)[1]) = "Git" THEN "Unknown"
  ELSE classify(protocol_str(range)[1])

\* Range::protocol
protocol(range) ==
  IF protocol_str(range) = None THEN "Unknown" ELSE classify(protocol_str(range)[1])

\* s.find('#').map_or(Some((s, None)), |pos| Some((&s[..pos], Some(&s[pos + 1..]))))
split_at_hash(s, pos) ==
  IF pos = None THEN Some(<<s, None>>)
  ELSE Some(<<SubSeq(s, 1, pos[1]), Some(From(s, pos[1] + 2))>>)

\* a faulty variant of the accessor below: the selector is split, not the raw
as_git_selector_and_fragment(range) ==
  IF protocol(range) = "Git"
  THEN split_at_hash(selector(range), Find(selector(range), "#"))
  ELSE None

\* Range::as_git_url_and_fragment
as_git_url_and_fragment(range) ==
  IF protocol(range) = "Git"
  THEN split_at_hash(raw(range), Find(raw(range), "#"))
  ELSE None

\* a faulty variant of the accessor below: the raw is split, not the selector
as_patch_raw_and_source(range) ==
  IF protocol(range) = "Patch"
  THEN split_at_hash(raw(range), Find(raw(range), "#"))
  ELSE None

\* Range::as_patch_inner_and_source
as_patch_inner_and_source(range) ==
  IF protocol(range) = "Patch"
  THEN split_at_hash(selector(range), Find(selector(range), "#"))
  ELSE None

\* Range::as_npm_range
as_npm_range(range) == IF protocol(range) = "Npm" THEN Some(selector(range)) ELSE None

\* Range::as_workspace_path
as_workspace_path(range) ==
  IF protocol(range) = "Workspace" THEN Some(selector(range)) ELSE None

\* a faulty variant of the accessor below: it also answers for the file protocol
as_link_or_file_path(range) ==
  IF protocol(range) \in {"Link", "File"} THEN Some(selector(range)) ELSE None

\* Range::as_link_path
as_link_path(range) == IF protocol(range) = "Link" THEN Some(selector(range)) ELSE None

\* Range::as_file_path
as_file_path(range) == IF protocol(range) = "File" THEN Some(selector(range)) ELSE None

\* Range::as_portal_path
as_portal_path(range) == IF protocol(range) = "Portal" THEN Some(selector(range)) ELSE None

\* Range::as_exec_command
as_exec_command(range) == IF protocol(range) = "Exec" THEN Some(selector(range)) ELSE None

\* Descriptor::new(ident, range_raw)
Descriptor(ident, range_raw) == [ident |-> ident, range |-> from_raw(range_raw)]

\* Descriptor::range: the raw range string
range(descriptor) == raw(descriptor.range)

\* Metadata::new
Metadata(version, cache_key) == [version |-> version, cache_key |-> cache_key]

\* LinkType::try_from(&str): Ok(Hard), Ok(Soft) or Err(())
LinkType_try_from(s) ==
  IF s = "hard" THEN Some("Hard")
  ELSE IF s = "soft" THEN Some("Soft")
  ELSE None

\* DependencyMeta { built, optional, unplugged } and PeerDependencyMeta { optional }
DependencyMeta(built, optional, unplugged) ==
  [built |-> built, optional |-> optional, unplugged |-> unplugged]
PeerDependencyMeta(optional) == [optional |-> optional]

\* HashMap: a function on the set of its keys
EmptyMap == <<>>
Insert(m, k, v) == [x \in DOMAIN m \cup {k} |-> IF x = k THEN v ELSE m[x]]

\* Package::new(language_name, link_type)
Package(language_name, link_type) ==
  [ version |-> None,
    resolution |-> None,
    language_name |-> language_name,
    link_type |-> link_type,
    checksum |-> None,
    conditions |-> None,
    dependencies |-> EmptyMap,
    dependencies_meta |-> EmptyMap,
    peer_dependencies |-> EmptyMap,
    peer_dependencies_meta |-> EmptyMap,
    bin |-> EmptyMap ]

\* Lockfile { metadata, entries }
Lockfile(md, entries) == [metadata |-> md, entries |-> entries]

----------------------------------------------------------------------------
(* Descriptor micro-parser: parse.rs                                       *)

NameChars == Alphanumeric \cup {"-", "_"}
RangeChars == AnyChar \ {",", "\""}

\* parse_package_name: alt(recognize('@' seg '/' seg), seg)
parse_package_name(input) ==
  OrElse(
    Bind(char("@", input), LAMBDA at :
    Bind(take_while1(NameChars, at.rest), LAMBDA scope :
    Bind(char("/", scope.rest), LAMBDA slash :
    Bind(take_while1(NameChars, slash.rest), LAMBDA name :
      Ok(name.rest, SubSeq(input, 1, Len(input) - Len(name.rest))))))),
    take_while1(NameChars, input))

\* parse_protocol
parse_protocol(input) == take_while1(NameChars, input)

\* parse_patch_range
parse_patch_range(input) == take_while1(RangeChars, input)

\* the tuple (parse_package_name, '@', parse_protocol, ':', parse_patch_range)
\* of the first attempt of parse_single_descriptor
patch_form(input) ==
  Bind(parse_package_name(input), LAMBDA name :
  Bind(char("@", name.rest), LAMBDA at :
  Bind(parse_protocol(at.rest), LAMBDA proto :
  Bind(char(":", proto.rest), LAMBDA colon :
  Bind(parse_patch_range(colon.rest), LAMBDA patch_range :
    Ok(patch_range.rest, <<name.val, proto.val, patch_range.val>>))))))

\* the tuple (parse_package_name, '@', parse_protocol, ':', take_while1(..))
\* of the second attempt
protocol_form(input) ==
  Bind(parse_package_name(input), LAMBDA name :
  Bind(char("@", name.rest), LAMBDA at :
  Bind(parse_protocol(at.rest), LAMBDA proto :
  Bind(char(":", proto.rest), LAMBDA colon :
  Bind(take_while1(RangeChars, colon.rest), LAMBDA rng :
    Ok(rng.rest, <<name.val, proto.val, rng.val>>))))))

\* the tuple (parse_package_name, '@', take_while1(..)) of the third attempt
simple_form(input) ==
  Bind(parse_package_name(input), LAMBDA name :
  Bind(char("@", name.rest), LAMBDA at :
  Bind(take_while1(RangeChars, at.rest), LAMBDA rng :
    Ok(rng.rest, <<name.val, "", rng.val>>))))

\* the first attempt returns only for the protocol "patch"
only_patch(r) == IF IsOk(r) /\ r.val[2] # "patch" THEN Err(r.rest) ELSE r

\* parse_single_descriptor: patch form, then protocol:range, then bare range;
\* val is (name_part, protocol, range)
parse_single_descriptor(input) ==
  OrElse(only_patch(patch_form(input)),
  OrElse(protocol_form(input),
  OrElse(simple_form(input),
    Err(input))))

\* parse_name_to_ident
parse_name_to_ident(name_part) ==
  IF StartsWith(name_part, "@")
  THEN LET stripped == From(name_part, 2)
           slash == Find(stripped, "/")
       IN  IF slash # None
           THEN Ident(Some("@" \o SubSeq(stripped, 1, slash[1])),
                      From(stripped, slash[1] + 2))
           ELSE Ident(None, name_part)
  ELSE Ident(None, name_part)

\* preceded((space0, char(','), space0), parse_single_descriptor)
next_descriptor(input) ==
  Bind(space0(input), LAMBDA sp1 :
  Bind(char(",", sp1.rest), LAMBDA comma :
  Bind(space0(comma.rest), LAMBDA sp2 :
    parse_single_descriptor(sp2.rest))))

\* one iteration of many0 / fold_many0 on the result r of the repeated
\* parser: an Err ends the loop with what was accumulated, a parser that
\* consumed nothing is an error, anything else is pushed and the loop goes on
many0_step(r, input, acc, Again(_)) ==
  IF r.status = "Err" THEN Ok(input, acc)
  ELSE IF ~IsOk(r) THEN r
  ELSE IF Len(r.rest) = Len(input) THEN Err(input)
  ELSE Again(r)

\* fold_many0(preceded(..), Vec::new, push): the descriptors after the first,
\* in source order
RECURSIVE fold_descriptors(_, _)
fold_descriptors(input, acc) ==
  many0_step(next_descriptor(input), input, acc,
             LAMBDA d : fold_descriptors(d.rest, Append(acc, d.val)))

\* a faulty variant of the closure below: the protocol is dropped from the range
to_descriptor_without_protocol(t) == Descriptor(parse_name_to_ident(t[1]), t[3])

\* the closure of parse_descriptor_line that turns (name_part, protocol,
\* range) into an owned Descriptor
to_descriptor(t) ==
  LET ident == parse_name_to_ident(t[1])
      full_range == IF t[2] = "" THEN t[3] ELSE t[2] \o ":" \o t[3]
  IN  Descriptor(ident, full_range)

\* delimited(char('"'), take_until("\":"), tag("\":")): val is the key string
descriptor_string(input) ==
  Bind(char("\"", input), LAMBDA open :
  Bind(take_until("\":", open.rest), LAMBDA key :
  Bind(tag("\":", key.rest), LAMBDA close :
    Ok(close.rest, key.val))))

\* assert_eq!(remaining, "", "Should consume entire descriptor string")
assert_consumed(remaining, r) == IF remaining = "" THEN r ELSE Panic

\* parse_descriptor_line: val is the Vec<Descriptor>
parse_descriptor_line(input) ==
  Bind(descriptor_string(input), LAMBDA key :
  Bind(parse_single_descriptor(key.val), LAMBDA first :
  Bind(fold_descriptors(first.rest, <<>>), LAMBDA more :
    assert_consumed(more.rest,
      Ok(key.rest, [i \in 1..(1 + Len(more.val)) |->
                      to_descriptor((<<first.val>> \o more.val)[i])])))))

----------------------------------------------------------------------------
(* Package-entry reader: parse.rs                                          *)

KeyChars == Alphanumeric \cup {"_"}
DepNameChars == Alphanumeric \cup {"-", "_", "@", "/"}

\* a faulty variant of the parser below: a key is letters only
parse_simple_property_alphabetic_key(input) ==
  Bind(tag("  ", input), LAMBDA indent :
  Bind(take_while1(Alphabetic, indent.rest), LAMBDA key :
  Bind(char(":", key.rest), LAMBDA colon :
  Bind(space1(colon.rest), LAMBDA sp :
  Bind(is_not({"\r", "\n"}, sp.rest), LAMBDA value :
  Bind(newline(value.rest), LAMBDA nl :
    Ok(nl.rest, <<key.val, value.val>>)))))))

\* parse_simple_property: val is (key, value)
parse_simple_property(input) ==
  Bind(tag("  ", input), LAMBDA indent :
  Bind(take_while1(KeyChars, indent.rest), LAMBDA key :
  Bind(char(":", key.rest), LAMBDA colon :
  Bind(space1(colon.rest), LAMBDA sp :
  Bind(is_not({"\r", "\n"}, sp.rest), LAMBDA value :
  Bind(newline(value.rest), LAMBDA nl :
    Ok(nl.rest, <<key.val, value.val>>)))))))

\* the alt of parse_dependency_line: a quoted or an unquoted dependency name
dependency_name(input) ==
  OrElse(
    Bind(char("\"", input), LAMBDA open :
    Bind(take_while1(DepNameChars, open.rest), LAMBDA quoted :
    Bind(char("\"", quoted.rest), LAMBDA close :
      Ok(close.rest, quoted.val)))),
    take_while1(DepNameChars, input))

\* parse_dependency_line: val is (dep_name, clean_range)
parse_dependency_line(input) ==
  Bind(tag("    ", input), LAMBDA indent :
  Bind(dependency_name(indent.rest), LAMBDA dep_name :
  Bind(char(":", dep_name.rest), LAMBDA colon :
  Bind(space1(colon.rest), LAMBDA sp :
  Bind(take_until("\n", sp.rest), LAMBDA dep_range :
  Bind(newline(dep_range.rest), LAMBDA nl :
    Ok(nl.rest, <<dep_name.val, TrimMatches(Trim(dep_range.val), {"\""})>>)))))))

\* parse_bin_line: val is (bin_name, clean_path)
parse_bin_line(input) ==
  Bind(tag("    ", input), LAMBDA indent :
  Bind(take_while1(DepNameChars, indent.rest), LAMBDA bin_name :
  Bind(char(":", bin_name.rest), LAMBDA colon :
  Bind(space1(colon.rest), LAMBDA sp :
  Bind(is_not({"\r", "\n"}, sp.rest), LAMBDA bin_path :
  Bind(newline(bin_path.rest), LAMBDA nl :
    Ok(nl.rest, <<bin_name.val, TrimMatches(Trim(bin_path.val), {"\""})>>)))))))

\* a faulty variant of the function below: a written boolean always reads true
parse_bool_property_always_true(prop_name, input) ==
  Bind(tag(prop_name, input), LAMBDA name :
  Bind(char(":", name.rest), LAMBDA colon :
  Bind(space1(colon.rest), LAMBDA sp :
  Bind(OrElse(tag("true", sp.rest), tag("false", sp.rest)), LAMBDA value :
  Bind(space0(value.rest), LAMBDA sp0 :
    Ok(sp0.rest, TRUE))))))
\* parse_bool_property(prop_name): val is the boolean
parse_bool_property(prop_name, input) ==
  Bind(tag(prop_name, input), LAMBDA name :
  Bind(char(":", name.rest), LAMBDA colon :
  Bind(space1(colon.rest), LAMBDA sp :
  Bind(OrElse(tag("true", sp.rest), tag("false", sp.rest)), LAMBDA value :
  Bind(space0(value.rest), LAMBDA sp0 :
    Ok(sp0.rest, value.val = "true"))))))

\* opt(parse_bool_property(prop_name))
opt_bool_property(prop_name, input) == opt(parse_bool_property(prop_name, input), input)

\* opt((space0, char(','), space0))
opt_comma(input) ==
  opt(Bind(space0(input), LAMBDA sp1 :
      Bind(char(",", sp1.rest), LAMBDA comma :
        space0(comma.rest))),
      input)

\* parse_meta_object: "{ built: true, optional: false }"
parse_meta_object(input) ==
  Bind(char("{", input), LAMBDA open :
  Bind(space0(open.rest), LAMBDA sp :
  Bind(opt_bool_property("built", sp.rest), LAMBDA built :
  Bind(opt_comma(built.rest), LAMBDA c1 :
  Bind(opt_bool_property("optional", c1.rest), LAMBDA optional :
  Bind(opt_comma(optional.rest), LAMBDA c2 :
  Bind(opt_bool_property("unplugged", c2.rest), LAMBDA unplugged :
  Bind(space0(unplugged.rest), LAMBDA sp2 :
  Bind(char("}", sp2.rest), LAMBDA close :
    Ok(close.rest, DependencyMeta(built.val, optional.val, unplugged.val)))))))))))

\* parse_peer_meta_object: "{ optional: true }"
parse_peer_meta_object(input) ==
  Bind(char("{", input), LAMBDA open :
  Bind(space0(open.rest), LAMBDA sp :
  Bind(parse_bool_property("optional", sp.rest), LAMBDA optional :
  Bind(char("}", optional.rest), LAMBDA close :
    Ok(close.rest, PeerDependencyMeta(optional.val))))))

\* parse_dependency_meta_line: val is (dep_name, DependencyMeta)
parse_dependency_meta_line(input) ==
  Bind(tag("    ", input), LAMBDA indent :
  Bind(take_while1(DepNameChars, indent.rest), LAMBDA dep_name :
  Bind(char(":", dep_name.rest), LAMBDA colon :
  Bind(space1(colon.rest), LAMBDA sp :
  Bind(parse_meta_object(sp.rest), LAMBDA meta_content :
  Bind(newline(meta_content.rest), LAMBDA nl :
    Ok(nl.rest, <<dep_name.val, meta_content.val>>)))))))

\* parse_peer_dependency_meta_line: val is (dep_name, PeerDependencyMeta)
parse_peer_dependency_meta_line(input) ==
  Bind(tag("    ", input), LAMBDA indent :
  Bind(take_while1(DepNameChars, indent.rest), LAMBDA dep_name :
  Bind(char(":", dep_name.rest), LAMBDA colon :
  Bind(space1(colon.rest), LAMBDA sp :
  Bind(parse_peer_meta_object(sp.rest), LAMBDA meta_content :
  Bind(newline(meta_content.rest), LAMBDA nl :
    Ok(nl.rest, <<dep_name.val, meta_content.val>>)))))))

\* the entry parser each sub-block folds over
entry_line(kind, input) ==
  CASE kind = "Dependencies" -> parse_dependency_line(input)
    [] kind = "PeerDependencies" -> parse_dependency_line(input)
    [] kind = "Bin" -> parse_bin_line(input)
    [] kind = "DependenciesMeta" -> parse_dependency_meta_line(input)
    [] kind = "PeerDependenciesMeta" -> parse_peer_dependency_meta_line(input)

\* fold_many0(entry parser, Vec::new, push): the entries in source order
RECURSIVE fold_many0(_, _, _)
fold_many0(kind, input, acc) ==
  many0_step(entry_line(kind, input), input, acc,
             LAMBDA r : fold_many0(kind, r.rest, Append(acc, r.val)))

\* (tag(header), newline, fold_many0(entry parser)): val is a PropertyValue
sub_block(header, kind, input) ==
  Bind(tag(header, input), LAMBDA head :
  Bind(newline(head.rest), LAMBDA nl :
  Bind(fold_many0(kind, nl.rest, <<>>), LAMBDA entries :
    Ok(entries.rest, [kind |-> kind, items |-> entries.val]))))

parse_dependencies_block(input) == sub_block("  dependencies:", "Dependencies", input)
parse_peer_dependencies_block(input) ==
  sub_block("  peerDependencies:", "PeerDependencies", input)
parse_bin_block(input) == sub_block("  bin:", "Bin", input)
parse_dependencies_meta_block(input) ==
  sub_block("  dependenciesMeta:", "DependenciesMeta", input)
parse_peer_dependencies_meta_block(input) ==
  sub_block("  peerDependenciesMeta:", "PeerDependenciesMeta", input)

\* PropertyValue::Simple(key, value)
Simple(r) == Bind(r, LAMBDA kv : Ok(kv.rest, [kind |-> "Simple", key |-> kv.val[1],
                                              value |-> kv.val[2]]))

\* parse_property_line: val is a PropertyValue
parse_property_line(input) ==
  OrElse(Simple(parse_simple_property(input)),
  OrElse(parse_dependencies_block(input),
  OrElse(parse_peer_dependencies_block(input),
  OrElse(parse_bin_block(input),
  OrElse(parse_dependencies_meta_block(input),
  OrElse(parse_peer_dependencies_meta_block(input),
    Err(input)))))))

\* many0(parse_property_line)
RECURSIVE many0_property_lines(_, _)
many0_property_lines(input, acc) ==
  many0_step(parse_property_line(input), input, acc,
             LAMBDA r : many0_property_lines(r.rest, Append(acc, r.val)))

\* a faulty variant of the function below: the scope loses its leading '@'
parse_dependency_name_to_ident_bare_scope(dep_name) ==
  IF StartsWith(dep_name, "@") /\ Find(From(dep_name, 2), "/") # None
  THEN Ident(Some(SubSeq(dep_name, 2, Find(From(dep_name, 2), "/")[1] + 1)),
             From(dep_name, Find(From(dep_name, 2), "/")[1] + 3))
  ELSE Ident(None, dep_name)

\* parse_dependency_name_to_ident
parse_dependency_name_to_ident(dep_name) ==
  IF StartsWith(dep_name, "@")
  THEN LET stripped == From(dep_name, 2)
           slash == Find(stripped, "/")
       IN  IF slash # None
           THEN Ident(Some("@" \o SubSeq(stripped, 1, slash[1])),
                      From(stripped, slash[1] + 2))
           ELSE Ident(None, dep_name)
  ELSE Ident(None, dep_name)

\* a faulty variant of the insert below: an Ident already in the dependencies
\* keeps its first Descriptor
insert_entry_first_wins(kind, map, name, value) ==
  IF kind = "Dependencies" /\ parse_dependency_name_to_ident(name) \in DOMAIN map
  THEN map
  ELSE Insert(map, parse_dependency_name_to_ident(name),
              Descriptor(parse_dependency_name_to_ident(name), value))

\* map.insert(key, value) for one parsed (name, value) entry of a sub-block
insert_entry(kind, map, name, value) ==
  LET ident == parse_dependency_name_to_ident(name)
  IN  CASE kind \in {"Dependencies", "PeerDependencies"} ->
             Insert(map, ident, Descriptor(ident, value))
        [] kind = "Bin" -> Insert(map, name, value)
        [] kind = "DependenciesMeta" -> Insert(map, ident, Some(value))
        [] kind = "PeerDependenciesMeta" -> Insert(map, ident, value)

\* the loops `for (name, x) in items { map.insert(..) }` of parse_package_properties
RECURSIVE insert_all(_, _, _, _)
insert_all(kind, map, items, i) ==
  IF i > Len(items) THEN map
  ELSE insert_all(kind, insert_entry(kind, map, items[i][1], items[i][2]), items, i + 1)

\* a faulty variant of the arm below: the parsed link type is not stored
set_link_type_not_stored(package, link_type) ==
  IF link_type = None THEN Panic ELSE Ok("", package)

\* the arm `"linkType" => ..unwrap_or_else(|()| panic!(..))`
set_link_type(package, link_type) ==
  IF link_type = None THEN Panic ELSE Ok("", [package EXCEPT !.link_type = link_type[1]])

\* one arm of the match on a PropertyValue; Panic on an invalid linkType
apply_property(package, p) ==
  CASE p.kind = "Simple" ->
         ( CASE p.key = "version" ->
                  Ok("", [package EXCEPT !.version = Some(TrimMatches(p.value, {"\""}))])
             [] p.key = "resolution" ->
                  Ok("", [package EXCEPT !.resolution = Some(TrimMatches(p.value, {"\""}))])
             [] p.key = "languageName" ->
                  Ok("", [package EXCEPT !.language_name = p.value])
             [] p.key = "linkType" -> set_link_type(package, LinkType_try_from(p.value))
             [] p.key = "checksum" ->
                  Ok("", [package EXCEPT !.checksum = Some(p.value)])
             [] p.key = "conditions" ->
                  Ok("", [package EXCEPT !.conditions = Some(p.value)])
             [] OTHER -> Ok("", package) )
    [] p.kind = "Dependencies" ->
         Ok("", [package EXCEPT !.dependencies = insert_all(p.kind, @, p.items, 1)])
    [] p.kind = "PeerDependencies" ->
         Ok("", [package EXCEPT !.peer_dependencies = insert_all(p.kind, @, p.items, 1)])
    [] p.kind = "Bin" ->
         Ok("", [package EXCEPT !.bin = insert_all(p.kind, @, p.items, 1)])
    [] p.kind = "DependenciesMeta" ->
         Ok("", [package EXCEPT !.dependencies_meta = insert_all(p.kind, @, p.items, 1)])
    [] p.kind = "PeerDependenciesMeta" ->
         Ok("", [package EXCEPT
                   !.peer_dependencies_meta = insert_all(p.kind, @, p.items, 1)])

\* `for property_value in properties { match property_value { .. } }`
RECURSIVE build_package(_, _, _)
build_package(package, properties, i) ==
  IF i > Len(properties) THEN Ok("", package)
  ELSE Bind(apply_property(package, properties[i]),
            LAMBDA r : build_package(r.val, properties, i + 1))

\* a faulty variant of the function below: the remainder is returned trimmed
parse_package_properties_trimmed_remainder(input) ==
  Bind(many0_property_lines(input, <<>>), LAMBDA properties :
  Bind(opt(newline(properties.rest), properties.rest), LAMBDA nl :
  Bind(build_package(Package("unknown", "Hard"), properties.val, 1), LAMBDA package :
    Ok(Trim(nl.rest), package.val))))
\* parse_package_properties: val is the Package
parse_package_properties(input) ==
  Bind(many0_property_lines(input, <<>>), LAMBDA properties :
  Bind(opt(newline(properties.rest), properties.rest), LAMBDA nl :
  Bind(build_package(Package("unknown", "Hard"), properties.val, 1), LAMBDA package :
    Ok(nl.rest, package.val))))

\* parse_package_entry: val is (descriptors, package)
parse_package_entry(input) ==
  Bind(parse_descriptor_line(input), LAMBDA descriptors :
  Bind(newline(descriptors.rest), LAMBDA nl :
  Bind(parse_package_properties(nl.rest), LAMBDA package :
    Ok(package.rest, <<descriptors.val, package.val>>))))

\* parse_package_only: map(parse_package_entry, |(_, package)| package)
parse_package_only(input) ==
  Bind(parse_package_entry(input), LAMBDA entry : Ok(entry.rest, entry.val[2]))

----------------------------------------------------------------------------
(* Header and metadata reader: lockfile.rs; top-level driver: parse.rs     *)

\* a comment line: '#' at column 0 up to the terminator
comment_line(input) ==
  Bind(char("#", input), LAMBDA hash :
  Bind(take_until("\n", hash.rest), LAMBDA text :
    newline(text.rest)))

\* a blank line: spaces or tabs, an optional '\r', the terminator
blank_line(input) ==
  Bind(space0(input), LAMBDA sp :
  Bind(opt(char("\r", sp.rest), sp.rest), LAMBDA cr :
    newline(cr.rest)))

\* parse_yarn_header: the banner, any prefix of comment lines and blank lines
RECURSIVE parse_yarn_header(_)
parse_yarn_header(input) ==
  OrElse(Bind(OrElse(comment_line(input), blank_line(input)),
              LAMBDA line : parse_yarn_header(line.rest)),
         Ok(input, <<>>))

\* parse_metadata_line: val is (key, value)
parse_metadata_line(input) ==
  Bind(space1(input), LAMBDA indent :
  Bind(take_while(Alphabetic \cup {"_"}, indent.rest), LAMBDA key :
  Bind(char(":", key.rest), LAMBDA colon :
  Bind(space1(colon.rest), LAMBDA sp :
  Bind(is_not({"\r", "\n"}, sp.rest), LAMBDA value :
  Bind(newline(value.rest), LAMBDA nl :
    Ok(nl.rest, <<key.val, value.val>>)))))))

\* parse_metadata: val is the Metadata
parse_metadata(input) ==
  Bind(tag("__metadata:", input), LAMBDA head :
  Bind(newline(head.rest), LAMBDA nl :
  Bind(parse_metadata_line(nl.rest), LAMBDA version_line :
  Bind(parse_metadata_line(version_line.rest), LAMBDA cache_key_line :
    Ok(cache_key_line.rest,
       Metadata(TrimMatches(version_line.val[2], {"\""}),
                TrimMatches(cache_key_line.val[2], {"\""})))))))

\* many0(parse_package_only): the packages in source order
RECURSIVE many0_parse_package_only(_, _)
many0_parse_package_only(input, acc) ==
  many0_step(parse_package_only(input), input, acc,
             LAMBDA r : many0_parse_package_only(r.rest, Append(acc, r.val)))

\* parse_lockfile: val is the Lockfile
parse_lockfile(contents) ==
  Bind(parse_yarn_header(contents), LAMBDA header :
  Bind(parse_metadata(header.rest), LAMBDA md :
  Bind(opt(newline(md.rest), md.rest), LAMBDA blank :
  Bind(many0_parse_package_only(blank.rest, <<>>), LAMBDA entries :
    Ok(entries.rest, Lockfile(md.val, entries.val))))))

----------------------------------------------------------------------------
(* Inputs: lockfile texts written line by line                             *)

MaxBlank == 2    \* blank lines between the metadata block and the first block
MaxBlocks == 2   \* package blocks in a lockfile
MaxKeys == 2     \* keys in a block header handed to parse_descriptor_line
MaxSpaces == 2   \* spaces after a ',' joining two keys
MaxTail == 3     \* characters written after the start of a raw range
MaxDeps == 2     \* dependency lines in a block
MaxTrail == 1    \* spaces written after the value of a line

\* the text of a sequence of lines, each ended by eol
RECURSIVE Render(_, _)
Render(lines, eol) ==
  IF lines = <<>> THEN "" ELSE Head(lines) \o eol \o Render(Tail(lines), eol)

RECURSIVE Flatten(_)
Flatten(seqs) == IF seqs = <<>> THEN <<>> ELSE Head(seqs) \o Flatten(Tail(seqs))

SeqsUpTo(S, n) == UNION {[1..k -> S] : k \in 0..n}

\* no banner, or the banner yarn writes
Banners ==
  { <<>>,
    <<"# This file is generated by running \"yarn install\" inside your project.",
      "# Manual changes might be lost - proceed with caution!",
      "">> }

MetadataBlocks ==
  { <<"  version: 8", "  cacheKey: 10">>,
    <<"  cacheKey: 10", "  version: 8">>,
    <<"  version: \"8\"", "  cacheKey: \"10\"", "  extra: 1">>,
    <<"  extra: 1", "  version: 8", "  cacheKey: 10">>,
    <<"  version: 8", "  extra: 1">>,
    <<"  cacheKey: 10">> }

GoodBlock == <<"\"a@npm:1\":", "  version: 1", "  linkType: hard", "">>
MultiKeyBlock ==
  <<"\"c@*, c@workspace:p\":", "  dependencies:", "    ms: 0.6", "  linkType: soft", "">>
BadHeaderBlock == <<"\"b\":", "  version: 2", "">>
BadBodyBlock == <<"\"d@npm:1\":", "  version 1", "">>
BadLinkTypeBlock == <<"\"e@npm:1\":", "  linkType: medium", "">>

Blocks == {GoodBlock, MultiKeyBlock, BadHeaderBlock, BadBodyBlock, BadLinkTypeBlock}

LockfileLines ==
  { banner \o <<"__metadata:">> \o md \o [i \in 1..blank |-> ""] \o Flatten(blocks) :
      banner \in Banners, md \in MetadataBlocks, blank \in 0..MaxBlank,
      blocks \in SeqsUpTo(Blocks, MaxBlocks) }

Lockfiles == { Render(lines, "\n") : lines \in LockfileLines }

----------------------------------------------------------------------------
(* parse_lockfile, one statement per step                                  *)

Init ==
  /\ file_contents \in Lockfiles
  /\ pc = "parse_yarn_header"
  /\ rest = file_contents
  /\ metadata = <<>>
  /\ packages = <<>>
  /\ outcome = "Running"
  /\ keys = <<>>
  /\ arg = ""
  /\ result = <<>>

Unit == <<keys, arg, result>>

\* the `?` after a call: an Err or a panic ends parse_lockfile
Fail(r) ==
  /\ pc' = "done"
  /\ outcome' = r.status
  /\ UNCHANGED <<file_contents, rest, metadata, packages, Unit>>

\* let (rest, (_, _)) = parse_yarn_header(file_contents)?;
CallParseYarnHeader ==
  /\ pc = "parse_yarn_header"
  /\ \E r \in {parse_yarn_header(file_contents)} :
         IF IsOk(r)
         THEN /\ rest' = r.rest
              /\ pc' = "parse_metadata"
              /\ UNCHANGED <<file_contents, metadata, packages, outcome, Unit>>
         ELSE Fail(r)

\* let (rest, metadata) = parse_metadata(rest)?;
CallParseMetadata ==
  /\ pc = "parse_metadata"
  /\ \E r \in {parse_metadata(rest)} :
         IF IsOk(r)
         THEN /\ rest' = r.rest
              /\ metadata' = r.val
              /\ pc' = "opt_newline"
              /\ UNCHANGED <<file_contents, packages, outcome, Unit>>
         ELSE Fail(r)

\* let (rest, _) = opt(newline).parse(rest)?;
ConsumeBlankLine ==
  /\ pc = "opt_newline"
  /\ rest' = opt(newline(rest), rest).rest
  /\ pc' = "many0"
  /\ UNCHANGED <<file_contents, metadata, packages, outcome, Unit>>

\* a faulty variant of the iteration of many0(parse_package_only): the
\* package is pushed but the loop goes on from the same remainder
Many0IterationRestKept ==
  /\ pc = "many0"
  /\ \E r \in {parse_package_only(rest)} :
         CASE r.status = "Panic" -> Fail(r)
           [] r.status = "Err" ->
                /\ pc' = "return"
                /\ UNCHANGED <<file_contents, rest, metadata, packages, outcome, Unit>>
           [] OTHER ->
                /\ packages' = Append(packages, r.val)
                /\ UNCHANGED <<file_contents, rest, pc, metadata, outcome, Unit>>

\* a faulty variant of the iteration below: the package is put in front of
\* the Vec instead of being pushed at its end
Many0IterationPushFront ==
  /\ pc = "many0"
  /\ \E r \in {parse_package_only(rest)} :
         CASE r.status = "Panic" -> Fail(r)
           [] r.status = "Err" ->
                /\ pc' = "return"
                /\ UNCHANGED <<file_contents, rest, metadata, packages, outcome, Unit>>
           [] r.status = "Ok" /\ Len(r.rest) = Len(rest) -> Fail(Err(rest))
           [] OTHER ->
                /\ packages' = <<r.val>> \o packages
                /\ rest' = r.rest
                /\ UNCHANGED <<file_contents, pc, metadata, outcome, Unit>>

\* one iteration of many0(parse_package_only): push the package and go on,
\* or leave the loop at the first block that does not parse
Many0Iteration ==
  /\ pc = "many0"
  /\ \E r \in {parse_package_only(rest)} :
         CASE r.status = "Panic" -> Fail(r)
           [] r.status = "Err" ->
                /\ pc' = "return"
                /\ UNCHANGED <<file_contents, rest, metadata, packages, outcome, Unit>>
           [] r.status = "Ok" /\ Len(r.rest) = Len(rest) -> Fail(Err(rest))
           [] OTHER ->
                /\ packages' = Append(packages, r.val)
                /\ rest' = r.rest
                /\ UNCHANGED <<file_contents, pc, metadata, outcome, Unit>>

\* Ok((rest, Lockfile { metadata, entries: packages }))
ReturnOk ==
  /\ pc = "return"
  /\ pc' = "done"
  /\ outcome' = "Ok"
  /\ UNCHANGED <<file_contents, rest, metadata, packages, Unit>>

Next ==
  \/ CallParseYarnHeader
  \/ CallParseMetadata
  \/ ConsumeBlankLine
  \/ Many0Iteration
  \/ ReturnOk

Spec == Init /\ [][Next]_vars

\* what parse_lockfile returned
Done == pc = "done"
ReturnedOk == Done /\ outcome = "Ok"

\* parse_lockfile is one sequential function: the statement control has
\* reached is executed. This is weak fairness of Next, WF_vars(Next), with
\* ENABLED <<Next>>_vars written out: a step is possible exactly until the
\* function has returned (every action is total under its guard on pc)
FairSpec == Spec /\ ([]<>Done \/ []<><<Next>>_vars)

----------------------------------------------------------------------------
(* parse_descriptor_line called on a block header line                     *)

\* the names and the rests (protocol, selector) header keys are written from
KeyNames ==
  { [scope |-> None, name |-> "c"],
    [scope |-> None, name |-> "is-odd"],
    [scope |-> Some("@babel"), name |-> "core"] }

KeyRests ==
  { [protocol |-> "", selector |-> "*"],
    [protocol |-> "npm", selector |-> "^3.0.0 || ^4.0.0"],
    [protocol |-> "workspace", selector |-> "packages/c"],
    [protocol |-> "patch", selector |-> "is-odd@npm%3A3.0.1#~/.yarn/p.patch"] }

Keys ==
  { [scope |-> n.scope, name |-> n.name, protocol |-> r.protocol, selector |-> r.selector] :
      n \in KeyNames, r \in KeyRests }

RECURSIVE Spaces(_)
Spaces(n) == IF n = 0 THEN "" ELSE " " \o Spaces(n - 1)

\* the text of one key: Name '@' Rest
KeyText(k) ==
  (IF k.scope = None THEN "" ELSE k.scope[1] \o "/") \o k.name \o "@"
    \o (IF k.protocol = "" THEN "" ELSE k.protocol \o ":") \o k.selector

\* the keys joined by ',' followed by pads[i] spaces
RECURSIVE JoinKeys(_, _, _)
JoinKeys(ks, pads, i) ==
  IF i > Len(ks) THEN ""
  ELSE (IF i = 1 THEN "" ELSE "," \o Spaces(pads[i - 1])) \o KeyText(ks[i])
         \o JoinKeys(ks, pads, i + 1)

\* the header line of a block: the quoted key list and the trailing colon
HeaderLine(ks, pads) == "\"" \o JoinKeys(ks, pads, 1) \o "\":"

InitDescriptor ==
  /\ keys \in UNION {[1..k -> Keys] : k \in 1..MaxKeys}
  /\ \E pads \in [1..(Len(keys) - 1) -> 0..MaxSpaces] : arg = HeaderLine(keys, pads)
  /\ result = <<>>
  /\ pc = "parse_descriptor_line"
  /\ outcome = "Running"
  /\ file_contents = ""
  /\ rest = ""
  /\ metadata = <<>>
  /\ packages = <<>>

\* let result = parse_descriptor_line(arg);
CallParseDescriptorLine ==
  /\ pc = "parse_descriptor_line"
  /\ \E r \in {parse_descriptor_line(arg)} :
         /\ result' = r
         /\ outcome' = r.status
  /\ pc' = "done"
  /\ UNCHANGED <<file_contents, rest, metadata, packages, keys, arg>>

NextDescriptor == CallParseDescriptorLine

SpecDescriptor == InitDescriptor /\ [][NextDescriptor]_vars

----------------------------------------------------------------------------
(* Range::from_raw and the views of a Range                                *)

\* how a raw range starts
RangeStarts ==
  { "", "npm", "NPM", "Npm", "workspace", "patch", "Patch", "patches", "file",
    "portal", "exec", "link", "git", "git+ssh", "github", "Git", "https",
    "git+ssh://host/repo.git", "patch:is-odd@npm%3A3.0.1" }

\* every text of up to n characters of the set
RECURSIVE TextsUpTo(_, _)
TextsUpTo(set, n) ==
  IF n = 0 THEN {""}
  ELSE {""} \cup {c \o t : c \in set, t \in TextsUpTo(set, n - 1)}

\* the raw ranges: a start followed by up to MaxTail of ':', '#' and 'a'
RangeTexts == { start \o tail : start \in RangeStarts, tail \in TextsUpTo({":", "#", "a"}, MaxTail) }

InitRange ==
  /\ arg \in RangeTexts
  /\ keys = <<>>
  /\ result = <<>>
  /\ pc = "from_raw"
  /\ outcome = "Running"
  /\ file_contents = ""
  /\ rest = ""
  /\ metadata = <<>>
  /\ packages = <<>>

\* let range = Range::from_raw(arg);
CallFromRaw ==
  /\ pc = "from_raw"
  /\ result' = [range |-> from_raw(arg)]
  /\ pc' = "views"
  /\ UNCHANGED <<file_contents, rest, metadata, packages, outcome, keys, arg>>

\* the views of the range a caller reads
CallViews ==
  /\ pc = "views"
  /\ result' = [ range |-> result.range,
                 raw |-> raw(result.range),
                 protocol_str |-> protocol_str(result.range),
                 selector |-> selector(result.range),
                 protocol |-> protocol(result.range),
                 git |-> as_git_url_and_fragment(result.range),
                 patch |-> as_patch_inner_and_source(result.range),
                 npm |-> as_npm_range(result.range),
                 workspace |-> as_workspace_path(result.range),
                 link |-> as_link_path(result.range),
                 file |-> as_file_path(result.range),
                 portal |-> as_portal_path(result.range),
                 exec |-> as_exec_command(result.range) ]
  /\ pc' = "done"
  /\ UNCHANGED <<file_contents, rest, metadata, packages, outcome, keys, arg>>

NextRange == CallFromRaw \/ CallViews

SpecRange == InitRange /\ [][NextRange]_vars

----------------------------------------------------------------------------
(* parse_package_properties called on the body of a block                  *)

\* the dependency lines a body is written from
DepLines ==
  { [scope |-> None, name |-> "ms", quoted |-> FALSE, range |-> "0.6", range_quoted |-> FALSE],
    [scope |-> None, name |-> "ms", quoted |-> FALSE, range |-> "npm:2", range_quoted |-> TRUE],
    [scope |-> None, name |-> "ms", quoted |-> TRUE, range |-> "npm:1", range_quoted |-> TRUE],
    [scope |-> Some("@babel"), name |-> "code-frame", quoted |-> TRUE,
     range |-> "npm:^7.12.11", range_quoted |-> TRUE],
    [scope |-> Some("@babel"), name |-> "code-frame", quoted |-> FALSE,
     range |-> "npm:7", range_quoted |-> FALSE],
    [scope |-> None, name |-> "is-odd", quoted |-> FALSE, range |-> "*", range_quoted |-> FALSE] }

\* a body: the linkType and languageName lines it has, its dependency lines,
\* and the spaces written after the values of its lines
Bodies ==
  [ link : {"none", "hard", "soft"},
    lang : {"none", "node"},
    pad : 0..MaxTrail,
    dep_pad : 0..MaxTrail,
    deps : UNION {[1..k -> DepLines] : k \in 0..MaxDeps} ]

Quoted(text, quoted) == IF quoted THEN "\"" \o text \o "\"" ELSE text

\* the text of a dependency line
DepLineText(d, pad) ==
  "    " \o Quoted((IF d.scope = None THEN "" ELSE d.scope[1] \o "/") \o d.name, d.quoted)
    \o ": " \o Quoted(d.range, d.range_quoted) \o Spaces(pad)

\* the lines of a body, the blank line closing the block included
BodyLines(b) ==
  <<"  version: 1.0.0" \o Spaces(b.pad)>>
    \o (IF b.lang = "none" THEN <<>> ELSE <<"  languageName: " \o b.lang \o Spaces(b.pad)>>)
    \o (IF b.link = "none" THEN <<>> ELSE <<"  linkType: " \o b.link \o Spaces(b.pad)>>)
    \o (IF b.deps = <<>> THEN <<>>
        ELSE <<"  dependencies:">>
               \o [i \in 1..Len(b.deps) |-> DepLineText(b.deps[i], b.dep_pad)])
    \o <<"">>

InitProperties ==
  /\ keys \in Bodies
  /\ arg = Render(BodyLines(keys), "\n")
  /\ result = <<>>
  /\ pc = "parse_package_properties"
  /\ outcome = "Running"
  /\ file_contents = ""
  /\ rest = ""
  /\ metadata = <<>>
  /\ packages = <<>>

\* let result = parse_package_properties(arg);
CallParsePackageProperties ==
  /\ pc = "parse_package_properties"
  /\ \E r \in {parse_package_properties(arg)} :
         /\ result' = r
         /\ outcome' = r.status
  /\ pc' = "done"
  /\ UNCHANGED <<file_contents, rest, metadata, packages, keys, arg>>

NextProperties == CallParsePackageProperties

SpecProperties == InitProperties /\ [][NextProperties]_vars

----------------------------------------------------------------------------
(* parse_package_properties called on a body with a meta sub-block         *)

MaxPeers == 2

\* the fields of DependencyMeta, in the order parse_meta_object reads them
MetaFields == <<"built", "optional", "unplugged">>

\* the ways to write some of the fields, each once, in some order
FieldOrders ==
  { o \in SeqsUpTo({MetaFields[j] : j \in DOMAIN MetaFields}, Len(MetaFields)) :
      \A i, j \in DOMAIN o : o[i] = o[j] => i = j }

\* a written object: its fields with their booleans, in the order written
DmObjects ==
  UNION { { [i \in DOMAIN o |-> [name |-> o[i], value |-> v[i]]] : v \in [DOMAIN o -> BOOLEAN] }
          : o \in FieldOrders }
PeerObjects == { <<[name |-> "optional", value |-> b]>> : b \in BOOLEAN }

\* the names of the entries of a meta sub-block, by position
MetaNames == <<"react", "vue", "@types/node">>

\* a body: the sub-block it has, the form its objects are written in, and the
\* object of each entry
MetaBodies ==
  [ kind : {"dependenciesMeta"},
    form : {"inline", "indented"},
    entries : { <<o>> : o \in DmObjects }
                \cup { <<o, <<[name |-> "built", value |-> TRUE]>>>> : o \in DmObjects } ]
  \cup
  [ kind : {"peerDependenciesMeta"},
    form : {"inline", "indented"},
    entries : UNION { [1..k -> PeerObjects] : k \in 1..MaxPeers } ]

FieldText(f) == f.name \o ": " \o (IF f.value THEN "true" ELSE "false")

RECURSIVE JoinFields(_, _)
JoinFields(o, i) ==
  IF i > Len(o) THEN ""
  ELSE (IF i = 1 THEN "" ELSE ", ") \o FieldText(o[i]) \o JoinFields(o, i + 1)

\* "{ built: true, optional: false }"
InlineObject(o) == IF o = <<>> THEN "{}" ELSE "{ " \o JoinFields(o, 1) \o " }"

\* the lines of one entry: the object after the name, or one field per line below it
MetaEntryLines(name, o, form) ==
  IF form = "inline" THEN <<"    " \o name \o ": " \o InlineObject(o)>>
  ELSE <<"    " \o name \o ":">> \o [i \in DOMAIN o |-> "      " \o FieldText(o[i])]

\* the lines of a body: the sub-block, a property after it, and the blank line
\* closing the block
MetaBodyLines(b) ==
  <<"  version: 1.0.0", "  " \o b.kind \o ":">>
    \o Flatten([i \in DOMAIN b.entries |-> MetaEntryLines(MetaNames[i], b.entries[i], b.form)])
    \o <<"  linkType: soft", "">>

InitMeta ==
  /\ keys \in MetaBodies
  /\ arg = Render(MetaBodyLines(keys), "\n")
  /\ result = <<>>
  /\ pc = "parse_package_properties"
  /\ outcome = "Running"
  /\ file_contents = ""
  /\ rest = ""
  /\ metadata = <<>>
  /\ packages = <<>>

NextMeta == CallParsePackageProperties

SpecMeta == InitMeta /\ [][NextMeta]_vars

----------------------------------------------------------------------------
(* parse_descriptor_line called on texts that may not be a header line     *)

\* the pieces a text is written from: an opening quote or none, a first key,
\* what follows the key inside the quotes, the closing '":' or less, and the
\* lines after the first line
HeaderOpenings == {"\"", ""}
HeaderFirstKeys == {"a@npm:1", "c@*", "@s/n@npm:^1"}
HeaderKeyTails == {"", ",", ", ", ", ?", ", b@npm:2", " ,b@2", "\"x"}
HeaderClosings == {"\":", "\"", ""}
HeaderFollowing ==
  {"", "\n  version: 1\n\n", "\nb@npm:2\":\n", "\n\"b@npm:2\":\n  version: 2\n\n"}

HeaderPieces ==
  [ open : HeaderOpenings, key : HeaderFirstKeys, tail : HeaderKeyTails,
    close : HeaderClosings, following : HeaderFollowing ]

HeaderText(h) == h.open \o h.key \o h.tail \o h.close \o h.following

InitHeader ==
  /\ keys \in HeaderPieces
  /\ arg = HeaderText(keys)
  /\ result = <<>>
  /\ pc = "parse_descriptor_line"
  /\ outcome = "Running"
  /\ file_contents = ""
  /\ rest = ""
  /\ metadata = <<>>
  /\ packages = <<>>

NextHeader == CallParseDescriptorLine

SpecHeader == InitHeader /\ [][NextHeader]_vars

----------------------------------------------------------------------------
(* Reading a lockfile text line by line, to state properties of its parse  *)

RECURSIVE SplitLines(_)
SplitLines(text) ==
  IF text = "" THEN <<>>
  ELSE LET f == Find(text, "\n")
       IN  IF f = None THEN <<text>>
           ELSE <<SubSeq(text, 1, f[1])>> \o SplitLines(From(text, f[1] + 2))

\* the lines that open a package block: a double quote at column 0
IsQuotedKeyLine(line) == StartsWith(line, "\"")
QuotedKeyLines(text) == SelectSeq(SplitLines(text), IsQuotedKeyLine)

\* the number of occurrences of the character c in s
CountChar(s, c) == Cardinality({i \in 1..Len(s) : CharAt(s, i) = c})

\* the number of comma-joined keys of a header line
KeyCount(line) == 1 + CountChar(line, ",")

\* the index of the "__metadata:" line
MetadataAt(lines) == CHOOSE i \in 1..Len(lines) : lines[i] = "__metadata:"

\* the number of indented lines from line j on
RECURSIVE CountIndented(_, _)
CountIndented(lines, j) ==
  IF j > Len(lines) \/ ~StartsWith(lines[j], " ") THEN 0
  ELSE 1 + CountIndented(lines, j + 1)

\* the key of an indented "key: value" line
KeyOf(line) ==
  LET t == Trim(line)
      f == Find(t, ":")
  IN  IF f = None THEN t ELSE SubSeq(t, 1, f[1])

\* the keys of the __metadata block, in source order
MetadataKeys(text) ==
  LET lines == SplitLines(text)
      at == MetadataAt(lines)
  IN  [n \in 1..CountIndented(lines, at + 1) |-> KeyOf(lines[at + n])]

\* the text with the first two lines of the __metadata block exchanged
SwapMetadataLines(text) ==
  LET lines == SplitLines(text)
      at == MetadataAt(lines)
  IN  Render([n \in 1..Len(lines) |->
                IF n = at + 1 THEN lines[at + 2]
                ELSE IF n = at + 2 THEN lines[at + 1]
                ELSE lines[n]], "\n")

\* the text with one more key/value line at the end of the __metadata block
WithExtraMetadataKey(text) ==
  LET lines == SplitLines(text)
      end == MetadataAt(lines) + CountIndented(lines, MetadataAt(lines) + 1)
  IN  Render(SubSeq(lines, 1, end) \o <<"  extra: 1">>
               \o SubSeq(lines, end + 1, Len(lines)), "\n")

\* the text with every line ending written CRLF
ToCRLF(text) == Render(SplitLines(text), "\r\n")

\* the whole text was consumed up to trailing whitespace
Accepted == ReturnedOk /\ Trim(rest) = ""

\* the driver stopped at a line of block b, before the blank line closing it
StoppedIn(b) ==
  \E i \in 1..(Len(b) - 1) : StartsWith(rest, Render(SubSeq(b, i, Len(b)), "\n"))

----------------------------------------------------------------------------
(* Properties                                                              *)

\* C1: whenever parse_lockfile returns Ok((remaining, lockfile)), remaining
\* is empty or consists only of whitespace characters
C1_RemainderIsWhitespace == ReturnedOk => Trim(rest) = ""

\* C2: whenever parse_lockfile returns Ok, the number of entries equals the
\* number of lines of the input that start at column 0 with a double quote
C2_OneEntryPerQuotedKeyLine ==
  ReturnedOk => Len(packages) = Len(QuotedKeyLines(file_contents))

\* C3: a parse that stops at a package block whose header line or property
\* body does not match the grammar ends with an error; it never returns Ok
\* after dropping that block and every block after it
C3_MalformedBlockIsAnError ==
  (Done /\ (StoppedIn(BadHeaderBlock) \/ StoppedIn(BadBodyBlock))) => outcome = "Err"

\* C4: a parse that stops at a package block whose linkType is neither
\* "hard" nor "soft" ends with an error value returned to the caller, and
\* not with a panic
C4_InvalidLinkTypeIsAnError ==
  (Done /\ StoppedIn(BadLinkTypeBlock)) => outcome = "Err"

\* C5: the order of the version and cacheKey lines is not significant: a
\* lockfile whose __metadata block lists exactly these two keys yields the
\* same Metadata when the two lines are exchanged
C5_MetadataOrderInsignificant ==
  (ReturnedOk /\ MetadataKeys(file_contents) \in
                   {<<"version", "cacheKey">>, <<"cacheKey", "version">>})
    => \E r \in {parse_lockfile(SwapMetadataLines(file_contents))} :
         IsOk(r) /\ r.val.metadata = metadata

\* the __metadata block has no line with key version, or none with key cacheKey
MissingMetadataKey ==
  \E k \in {"version", "cacheKey"} :
    \A n \in DOMAIN MetadataKeys(file_contents) : MetadataKeys(file_contents)[n] # k

\* C6: if the __metadata block has no line with key version, or no line with
\* key cacheKey, no Metadata is built and parse_lockfile returns an error
C6_MissingMetadataIsAnError ==
  MissingMetadataKey => (metadata = <<>> /\ (Done => outcome = "Err"))

\* C7: adding a further key/value line to the __metadata block of an
\* accepted lockfile yields a successful parse with the same metadata and
\* the same entries
C7_ExtraMetadataKeyIgnored ==
  Accepted
    => \E r \in {parse_lockfile(WithExtraMetadataKey(file_contents))} :
         IsOk(r) /\ r.val = Lockfile(metadata, packages)

\* C8: every lockfile accepted with LF line endings is accepted with every
\* line ending replaced by CRLF, and yields the same metadata and entries
C8_CRLFSameAsLF ==
  Accepted
    => \E r \in {parse_lockfile(ToCRLF(file_contents))} :
         IsOk(r) /\ r.val = Lockfile(metadata, packages)

\* C9: every Package returned by parse_lockfile carries the descriptors of
\* its block header: for a header with k comma-joined keys, a sequence of
\* length k
C9_PackageCarriesDescriptors ==
  ReturnedOk
    => \A i \in 1..Len(packages) :
         /\ "descriptors" \in DOMAIN packages[i]
         /\ Len(packages[i].descriptors) = KeyCount(QuotedKeyLines(file_contents)[i])

\* the range a key is written with: 'protocol:selector', or the bare selector
ExpectedRange(k) ==
  IF k.protocol = "" THEN k.selector ELSE k.protocol \o ":" \o k.selector

\* C10: parse_descriptor_line on a header line of k well-formed keys joined
\* by ',' and optional spaces returns exactly k Descriptors in source
\* order; the i-th has the Ident of the i-th key's name and the range
\* 'protocol:selector' when the key has a protocol, else the bare selector
C10_DescriptorsInSourceOrder ==
  (pc = "done" /\ keys # <<>>)
    => /\ result.status = "Ok"
       /\ Len(result.val) = Len(keys)
       /\ \A i \in 1..Len(keys) :
            /\ result.val[i].ident = Ident(keys[i].scope, keys[i].name)
            /\ range(result.val[i]) = ExpectedRange(keys[i])

\* a header of two keys, the first scoped and bare, the second with a
\* protocol, joined by ',' and two spaces, has been parsed into two Descriptors
C10_Witness ==
  /\ pc = "done"
  /\ Len(keys) = 2
  /\ keys[1].scope # None /\ keys[1].protocol = ""
  /\ keys[2].protocol = "workspace"
  /\ Find(arg, ",  ") # None
  /\ result.status = "Ok"
  /\ Len(result.val) = 2
  /\ range(result.val[2]) = "workspace:packages/c"

\* the entry a block of the input pool parses to is told by its header line:
\* GoodBlock has version 1 and a hard link, MultiKeyBlock a dependency and a
\* soft link
IsEntryOf(package, header) ==
  /\ header = GoodBlock[1]
       => package.version = Some("1") /\ package.link_type = "Hard"
            /\ package.dependencies = EmptyMap
  /\ header = MultiKeyBlock[1]
       => package.version = None /\ package.link_type = "Soft"
            /\ DOMAIN package.dependencies = {Ident(None, "ms")}

\* C11: package blocks are returned in source order: in an accepted input the
\* i-th block (the block of the i-th quoted-key line) is the i-th entry, so a
\* block before another one has the lower index
C11_EntriesInSourceOrder ==
  Accepted
    => /\ Len(packages) = Len(QuotedKeyLines(file_contents))
       /\ \A i \in 1..Len(packages) :
            IsEntryOf(packages[i], QuotedKeyLines(file_contents)[i])

\* an accepted input of two different blocks, the multi-key block first
C11_Witness ==
  /\ Accepted
  /\ Len(packages) = 2
  /\ QuotedKeyLines(file_contents) = <<MultiKeyBlock[1], GoodBlock[1]>>
  /\ packages[1].link_type = "Soft"
  /\ packages[2].link_type = "Hard"

\* the character c occurs in s; the text before and after its first occurrence
Occurs(s, c) == \E i \in 1..Len(s) : CharAt(s, i) = c
FirstAt(s, c) ==
  CHOOSE i \in 1..Len(s) : CharAt(s, i) = c /\ \A j \in 1..(i - 1) : CharAt(s, j) # c
Before(s, c) == SubSeq(s, 1, FirstAt(s, c) - 1)
After(s, c) == From(s, FirstAt(s, c) + 1)

\* C12: the Range built by from_raw(s) reconstructs s: raw() is s, and raw()
\* is protocol_str() ":" selector() when protocol_str() is present and
\* selector() when it is absent
C12_RangeRoundTrip ==
  pc = "done"
    => /\ result.raw = arg
       /\ result.protocol_str # None
            => result.raw = result.protocol_str[1] \o ":" \o result.selector
       /\ result.protocol_str = None => result.raw = result.selector

\* a raw with two ':' has been split at the first one
C12_Witness ==
  /\ pc = "done"
  /\ arg = "npm::a"
  /\ result.protocol_str = Some("npm")
  /\ result.selector = ":a"

\* the classification the text before the first ':' stands for
ProtocolNamed ==
  [ npm |-> "Npm", workspace |-> "Workspace", patch |-> "Patch", file |-> "File",
    portal |-> "Portal", exec |-> "Exec", link |-> "Link" ]

\* C13: protocol() is a case-sensitive function of the text before the first
\* ':' only: the seven lower-case names give their protocol, a prefix that
\* starts with "git" gives Git, every other prefix and a raw without ':'
\* give Unknown
C13_ProtocolClassification ==
  pc = "done"
    => result.protocol =
         IF ~Occurs(arg, ":") THEN "Unknown"
         ELSE IF Before(arg, ":") \in DOMAIN ProtocolNamed
              THEN ProtocolNamed[Before(arg, ":")]
         ELSE IF StartsWith(Before(arg, ":"), "git") THEN "Git"
         ELSE "Unknown"

\* "NPM:a" has been classified Unknown
C13_Witness ==
  pc = "done" /\ arg = "NPM:a" /\ result.protocol = "Unknown"

\* the pair a text splits into at its first '#'
SplitAtFirstHash(s) ==
  IF Occurs(s, "#") THEN <<Before(s, "#"), Some(After(s, "#"))>> ELSE <<s, None>>

\* C14: for a Range classified Git, as_git_url_and_fragment() splits the
\* whole raw string at its first '#'; for any other Range it is None
C14_GitUrlAndFragment ==
  pc = "done"
    => result.git = IF result.protocol = "Git" THEN Some(SplitAtFirstHash(arg)) ELSE None

\* a git+ssh range with a fragment has been split, the scheme kept in the url
C14_Witness ==
  /\ pc = "done"
  /\ arg = "git+ssh://host/repo.git#a"
  /\ result.git = Some(<<"git+ssh://host/repo.git", Some("a")>>)

\* C15: for a Range classified Patch, as_patch_inner_and_source() splits the
\* selector (the text after the first ':') at its first '#', '%'-escapes
\* unchanged; for any other Range it is None
C15_PatchInnerAndSource ==
  pc = "done"
    => result.patch =
         IF result.protocol = "Patch" THEN Some(SplitAtFirstHash(After(arg, ":"))) ELSE None

\* a patch range with a '%'-escape and a source has been split
C15_Witness ==
  /\ pc = "done"
  /\ arg = "patch:is-odd@npm%3A3.0.1#a"
  /\ result.patch = Some(<<"is-odd@npm%3A3.0.1", Some("a")>>)

\* the Ident a dependency line is written with, and whether line i is the
\* last dependency line of its Ident
IdentOf(d) == Ident(d.scope, d.name)
IsLastOfItsIdent(deps, i) == \A j \in (i + 1)..Len(deps) : IdentOf(deps[j]) # IdentOf(deps[i])

\* C16: duplicate dependency names within one block are last-wins: after
\* parse_package_properties the dependencies have exactly one entry per
\* distinct Ident of the dependency lines, and each Ident maps to the
\* Descriptor built from its last line in source order
C16_DuplicateDependencyLastWins ==
  (pc = "done" /\ result.status = "Ok")
    => /\ DOMAIN result.val.dependencies = {IdentOf(keys.deps[i]) : i \in DOMAIN keys.deps}
       /\ \A i \in DOMAIN keys.deps :
            IsLastOfItsIdent(keys.deps, i)
              => result.val.dependencies[IdentOf(keys.deps[i])]
                   = Descriptor(IdentOf(keys.deps[i]), keys.deps[i].range)

\* two lines of the dependency ms, of different ranges, have been parsed into
\* one entry
C16_Witness ==
  /\ pc = "done"
  /\ result.status = "Ok"
  /\ Len(keys.deps) = 2
  /\ keys.deps[1].name = "ms" /\ keys.deps[1].range = "0.6"
  /\ keys.deps[2].name = "ms" /\ keys.deps[2].range = "npm:2"
  /\ Cardinality(DOMAIN result.val.dependencies) = 1
  /\ range(result.val.dependencies[Ident(None, "ms")]) = "npm:2"

\* C17: a dependency name @scope/name, quoted or not, is stored under the
\* Ident (Some("@scope"), "name"), the scope keeping its '@', and a name
\* without '@' under (None, name); the stored range is the line's value
\* right-trimmed and without its surrounding double quotes
C17_DependencyIdentAndRange ==
  (pc = "done" /\ result.status = "Ok")
    => \A i \in DOMAIN keys.deps :
         IsLastOfItsIdent(keys.deps, i)
           => \E id \in DOMAIN result.val.dependencies :
                /\ id.name = keys.deps[i].name
                /\ id.scope = keys.deps[i].scope
                /\ keys.deps[i].scope # None => CharAt(id.scope[1], 1) = "@"
                /\ result.val.dependencies[id].ident = id
                /\ range(result.val.dependencies[id]) = keys.deps[i].range

\* a quoted scoped name with a quoted value followed by a space has been
\* stored under its scoped Ident with the bare range
C17_Witness ==
  /\ pc = "done"
  /\ result.status = "Ok"
  /\ keys.dep_pad = 1
  /\ Len(keys.deps) = 1
  /\ keys.deps[1].quoted /\ keys.deps[1].scope = Some("@babel")
  /\ Ident(Some("@babel"), "code-frame") \in DOMAIN result.val.dependencies
  /\ range(result.val.dependencies[Ident(Some("@babel"), "code-frame")]) = "npm:^7.12.11"

\* C18: every parsed entry has link_type Hard or Soft; without a linkType
\* line it is Hard, without a languageName line the language name is
\* "unknown"; the line 'linkType: hard' gives Hard and 'linkType: soft' Soft
C18_LinkTypeAndLanguageDefaults ==
  pc = "done"
    => /\ result.status = "Ok"
         => /\ result.val.link_type \in {"Hard", "Soft"}
            /\ keys.link = "none" => result.val.link_type = "Hard"
            /\ keys.lang = "none" => result.val.language_name = "unknown"
       /\ (keys.pad = 0 /\ keys.link = "hard")
            => result.status = "Ok" /\ result.val.link_type = "Hard"
       /\ (keys.pad = 0 /\ keys.link = "soft")
            => result.status = "Ok" /\ result.val.link_type = "Soft"

\* a body with the line 'linkType: soft' and no languageName line has been
\* parsed
C18_Witness ==
  /\ pc = "done"
  /\ keys.link = "soft" /\ keys.lang = "none" /\ keys.pad = 0
  /\ result.status = "Ok"
  /\ result.val.link_type = "Soft"
  /\ result.val.language_name = "unknown"

\* C20: the value of a simple property line is right-trimmed: spaces after
\* the value of the version, languageName or linkType line do not change
\* the parsed field
C20_SimpleValueRightTrimmed ==
  (pc = "done" /\ keys.pad > 0)
    => /\ result.status = "Ok"
       /\ result.val.version = Some("1.0.0")
       /\ keys.lang # "none" => result.val.language_name = keys.lang
       /\ keys.link = "hard" => result.val.link_type = "Hard"
       /\ keys.link = "soft" => result.val.link_type = "Soft"

\* the text with one more line after its j-th line
WithLineAfter(text, j, line) ==
  Render(SubSeq(SplitLines(text), 1, j) \o <<line>>
           \o SubSeq(SplitLines(text), j + 1, Len(SplitLines(text))), "\n")

\* the lines of a text after which a property line of a package block may be
\* written: the header line of a block, a property line or the last entry of
\* a sub-block (not between a sub-block header and its entries)
PropertyPositions(text) ==
  { j \in 1..(Len(SplitLines(text)) - 1) :
      /\ \E h \in 1..j : IsQuotedKeyLine(SplitLines(text)[h])
      /\ SplitLines(text)[j] # ""
      /\ ~StartsWith(SplitLines(text)[j + 1], "    ") }

\* simple property lines of keys the parser does not dispatch on
UnrecognizedPropertyLines == {"  custom_key1: some value", "  bin: x"}

\* C19: unrecognized simple property keys are accepted and ignored: a line
\* '  key: value' of such a key written into a package block of an accepted
\* input leaves the parsed Package and every other entry unchanged
C19_UnrecognizedKeyIgnored ==
  Accepted
    => \A j \in PropertyPositions(file_contents), line \in UnrecognizedPropertyLines :
         \E r \in {parse_lockfile(WithLineAfter(file_contents, j, line))} :
           /\ IsOk(r)
           /\ r.val = Lockfile(metadata, packages)
           /\ Trim(r.rest) = ""

\* an accepted input of two blocks, the first with a sub-block, into which
\* the line can be written at six places
C19_Witness ==
  /\ Accepted
  /\ Len(packages) = 2
  /\ QuotedKeyLines(file_contents) = <<MultiKeyBlock[1], GoodBlock[1]>>
  /\ Cardinality(PropertyPositions(file_contents)) = 6
  /\ \E j \in PropertyPositions(file_contents) :
       parse_lockfile(WithLineAfter(file_contents, j, "  custom_key1: some value")).val.entries
         = packages

----------------------------------------------------------------------------
(* Meta objects                                                            *)

\* the fields of object o in the order built, optional, unplugged
Canonical(o) ==
  [j \in 1..Len(o) |->
     CHOOSE f \in {o[i] : i \in DOMAIN o} :
       Cardinality({g \in {o[i] : i \in DOMAIN o} :
                      \E a, b \in DOMAIN MetaFields :
                        MetaFields[a] = g.name /\ MetaFields[b] = f.name /\ a < b}) = j - 1]

\* Some(true) / Some(false) for a written field, None for a field not written
FieldValue(o, name) ==
  IF \E i \in DOMAIN o : o[i].name = name
  THEN Some((CHOOSE f \in {o[i] : i \in DOMAIN o} : f.name = name).value)
  ELSE None

\* the DependencyMeta a written object stands for
ExpectedMeta(o) ==
  DependencyMeta(FieldValue(o, "built"), FieldValue(o, "optional"), FieldValue(o, "unplugged"))

\* the body was read: an inline dependenciesMeta sub-block
InlineMetaRead ==
  pc = "done" /\ keys.kind = "dependenciesMeta" /\ keys.form = "inline"

\* C21: an inline dependenciesMeta object is accepted with its fields in any
\* order: the body parses, and to the same result as the body whose objects
\* have the same fields and values written in the order built, optional,
\* unplugged
C21_FieldOrderInsignificant ==
  InlineMetaRead =>
    /\ result.status = "Ok"
    /\ result = parse_package_properties(
                  Render(MetaBodyLines([keys EXCEPT !.entries =
                           [i \in DOMAIN keys.entries |-> Canonical(keys.entries[i])]]), "\n"))

\* C22: each field of an inline dependenciesMeta object is stored on its own:
\* Some(true) or Some(false) as written, None when not written
C22_FieldsStoredIndependently ==
  InlineMetaRead =>
    /\ result.status = "Ok"
    /\ \A i \in DOMAIN keys.entries :
         /\ parse_dependency_name_to_ident(MetaNames[i]) \in DOMAIN result.val.dependencies_meta
         /\ result.val.dependencies_meta[parse_dependency_name_to_ident(MetaNames[i])]
              = Some(ExpectedMeta(keys.entries[i]))

\* the map of a body's meta sub-block
MetaMap(package) ==
  IF keys.kind = "dependenciesMeta" THEN package.dependencies_meta
  ELSE package.peer_dependencies_meta

\* C23: a meta sub-block written in the indented form (the name with an empty
\* value, one boolean field per line below it) yields one entry per name, the
\* same package as the inline form, and the property after the sub-block is read
C23_IndentedFormAccepted ==
  ( /\ pc = "done"
    /\ keys.form = "indented"
    /\ \A i \in DOMAIN keys.entries :
         keys.entries[i] # <<>> /\ keys.entries[i] = Canonical(keys.entries[i]) )
  =>
    /\ result.status = "Ok"
    /\ result.rest = ""
    /\ result.val.link_type = "Soft"
    /\ DOMAIN MetaMap(result.val)
         = {parse_dependency_name_to_ident(MetaNames[i]) : i \in DOMAIN keys.entries}
    /\ result = parse_package_properties(
                  Render(MetaBodyLines([keys EXCEPT !.form = "inline"]), "\n"))

\* the body of the test: 'react: { optional: true }' and 'vue: { optional: false }'
\* under peerDependenciesMeta
ReactAndVueRead ==
  /\ pc = "done"
  /\ keys.kind = "peerDependenciesMeta"
  /\ keys.form = "inline"
  /\ keys.entries = << <<[name |-> "optional", value |-> TRUE]>>,
                       <<[name |-> "optional", value |-> FALSE]>> >>

----------------------------------------------------------------------------
(* Blank lines before the first block                                      *)

\* the number of empty lines from line j on
RECURSIVE CountBlank(_, _)
CountBlank(lines, j) ==
  IF j > Len(lines) \/ lines[j] # "" THEN 0 ELSE 1 + CountBlank(lines, j + 1)

\* the index of the last line of the __metadata block
MetadataEnd(lines) == MetadataAt(lines) + CountIndented(lines, MetadataAt(lines) + 1)

\* the number of blank lines between the __metadata block and the first block
BlankLinesBeforeFirstBlock(text) == CountBlank(SplitLines(text), MetadataEnd(SplitLines(text)) + 1)

\* a package block follows the __metadata block and its blank lines
HasFirstBlock(text) ==
  MetadataEnd(SplitLines(text)) + BlankLinesBeforeFirstBlock(text) < Len(SplitLines(text))

\* the text with n blank lines between the __metadata block and the first block
WithBlankLines(text, n) ==
  Render(SubSeq(SplitLines(text), 1, MetadataEnd(SplitLines(text)))
           \o [i \in 1..n |-> ""]
           \o SubSeq(SplitLines(text),
                     MetadataEnd(SplitLines(text)) + BlankLinesBeforeFirstBlock(text) + 1,
                     Len(SplitLines(text))), "\n")

\* C24: whatever the number of blank lines between the __metadata block and
\* the first package block, they are consumed: when the text with exactly one
\* blank line there parses, the text parses too, with the same entries
C24_AnyNumberOfBlankLines ==
  (Done /\ HasFirstBlock(file_contents)) =>
    \A r \in {parse_lockfile(WithBlankLines(file_contents, 1))} :
      r.status = "Ok" => (outcome = "Ok" /\ packages = r.val.entries)

----------------------------------------------------------------------------
(* Malformed header lines                                                  *)

\* C25: parse_descriptor_line never panics: on a key list with a trailing
\* comma, a later key that does not parse or an embedded double quote it
\* returns an error value
C25_MalformedKeyListIsAnError ==
  (pc = "done" /\ keys.open = "\"" /\ keys.close = "\":") =>
    /\ result.status # "Panic"
    /\ keys.tail \in {",", ", ", ", ?", "\"x"} => result.status = "Err"

\* the first line of a text, without its terminator
FirstLine(text) == IF Find(text, "\n") = None THEN text ELSE SubSeq(text, 1, Find(text, "\n")[1])

\* a quoted string ending in '":'
IsQuotedHeader(line) ==
  /\ Len(line) >= Len("\"\":")
  /\ StartsWith(line, "\"")
  /\ From(line, Len(line) - 1) = "\":"

\* C26: parse_descriptor_line reads the header from the first line only: a
\* first line that is not a quoted string ending in '":' is an error, and
\* what an accepted header consumed, hence every name and range of its
\* descriptors, lies within the first line
C26_HeaderOnFirstLineOnly ==
  pc = "done" =>
    /\ ~IsQuotedHeader(FirstLine(arg)) => result.status = "Err"
    /\ result.status = "Ok" =>
         /\ Len(arg) - Len(result.rest) <= Len(FirstLine(arg))
         /\ \A i \in DOMAIN result.val :
              /\ Find(result.val[i].ident.name, "\n") = None
              /\ Find(range(result.val[i]), "\n") = None

----------------------------------------------------------------------------
(* Termination                                                             *)

\* the entry parsers of the sub-blocks
EntryKinds == {"Dependencies", "PeerDependencies", "Bin", "DependenciesMeta", "PeerDependenciesMeta"}

\* parser result r on input s consumed at least one character if it succeeded
Consumes(r, s) == IsOk(r) => Len(r.rest) < Len(s)

\* wherever in the remaining text a loop calls its parser, a successful call
\* consumes at least one character
LoopBodiesConsume ==
  pc = "many0" =>
    \A i \in 1..(Len(rest) + 1) :
      /\ Consumes(parse_package_only(From(rest, i)), From(rest, i))
      /\ Consumes(parse_property_line(From(rest, i)), From(rest, i))
      /\ \A kind \in EntryKinds : Consumes(entry_line(kind, From(rest, i)), From(rest, i))

\* C28: parse_lockfile terminates: every iteration of the package-block
\* loop strictly shortens the remainder, there are never more packages than
\* consumed characters, the parsers the property-line loop and the sub-block
\* entry loops repeat consume at least one character when they succeed, and
\* the function eventually returns
C28_Terminates ==
  /\ [][(pc = "many0" /\ pc' = "many0") => Len(rest') < Len(rest)]_vars
  /\ [](Len(packages) + Len(rest) <= Len(file_contents))
  /\ []LoopBodiesConsume
  /\ <>Done

C28_Witness ==
  /\ ReturnedOk
  /\ rest = ""
  /\ Len(packages) > 1
  /\ \E i \in DOMAIN packages : DOMAIN packages[i].dependencies # {}

----------------------------------------------------------------------------
(* Remainders                                                              *)

\* t is what is left of s after a prefix of s
IsSuffix(t, s) == Len(t) <= Len(s) /\ From(s, Len(s) - Len(t) + 1) = t

\* parser result r on input s: an Ok result leaves a suffix of s
LeavesSuffix(r, s) == IsOk(r) => IsSuffix(r.rest, s)

\* C29: the remainder a parser returns with Ok is a suffix of its input: that
\* of parse_lockfile at every step and at its return, and, where the driver
\* is about to read a block, those of parse_package_entry and
\* parse_descriptor_line on the text from there and of
\* parse_package_properties on the text after the header line
C29_RemainderIsSuffix ==
  /\ IsSuffix(rest, file_contents)
  /\ Done => LeavesSuffix(parse_lockfile(file_contents), file_contents)
  /\ pc = "many0" =>
       /\ LeavesSuffix(parse_package_entry(rest), rest)
       /\ LeavesSuffix(parse_descriptor_line(rest), rest)
       /\ \A body \in {newline(parse_descriptor_line(rest).rest).rest} :
            LeavesSuffix(parse_package_properties(body), body)

C29_Witness ==
  /\ ReturnedOk
  /\ packages # <<>>
  /\ rest = "\"b\":\n  version: 2\n\n"
  /\ Len(rest) < Len(file_contents)
  /\ IsSuffix(rest, file_contents)

----------------------------------------------------------------------------
(* Protocol-specific accessors                                             *)

\* what each protocol-specific accessor returned, with the accessor's protocol
AccessorResults ==
  << <<"Npm", result.npm>>, <<"Workspace", result.workspace>>, <<"Link", result.link>>,
     <<"File", result.file>>, <<"Portal", result.portal>>, <<"Exec", result.exec>>,
     <<"Git", result.git>>, <<"Patch", result.patch>> >>

\* C30: an accessor returns Some exactly when protocol() is its own protocol;
\* so at most one accessor returns Some, and all return None exactly when the
\* protocol is Unknown
C30_AccessorsFollowProtocol ==
  pc = "done" =>
    /\ \A i \in DOMAIN AccessorResults :
         AccessorResults[i][2] # None <=> result.protocol = AccessorResults[i][1]
    /\ Cardinality({i \in DOMAIN AccessorResults : AccessorResults[i][2] # None}) <= 1
    /\ (\A i \in DOMAIN AccessorResults : AccessorResults[i][2] = None)
         <=> result.protocol = "Unknown"

C30_Witness ==
  /\ pc = "done"
  /\ arg = "file:#a"
  /\ result.protocol = "File"
  /\ result.file = Some("#a")
  /\ \A i \in DOMAIN AccessorResults :
       AccessorResults[i][1] # "File" => AccessorResults[i][2] = None
====
